---- MODULE Spec2Model ----
(***************************************************************************)
(* Doomslug: the timer-driven approval state machine of chain-core.        *)
(*                                                                         *)
(* Instants and durations are natural numbers of milliseconds counted from *)
(* the creation of the fake clock (Clock::fake_new).  Heights are natural  *)
(* numbers far below the u64 bound.  A content hash is a small natural     *)
(* number, 0 being CryptoHash::default().                                  *)
(*                                                                         *)
(* The debug assertions of process_timer are recorded per iteration        *)
(* (delay_ok, pending_ok) and do not stop the call: that is the release    *)
(* build; a debug build stops at the first recorded failure.               *)
(***************************************************************************)
EXTENDS Integers, Sequences, FiniteSets, TLC

VARIABLES
    clock,                  \* Clock::Fake: the current instant
    ds,                     \* the Doomslug instance
    call,                   \* the last operation and its arguments
    returned,               \* the Vec<Approval> the last process_timer returned
    iters,                  \* the iterations of the last process_timer
    tip_set_at,             \* instant of the last set_tip (of new before any)
    endorsements_since_tip, \* approvals of the endorsement step since then
    max_issued,             \* largest target_height returned so far
    eager,                  \* a twin instance ticked at every clock step
    eager_skips,            \* the twin's skip approvals since the last set_tip
    lazy_skips,             \* ds's skip approvals since the last set_tip
    cap_hit,                \* a call since the last set_tip used all iterations
    skip_instants,          \* the values of timer.started since the last set_tip
    initial_target          \* the largest_target_height given to new

vars == <<clock, ds, call, returned, iters, tip_set_at,
          endorsements_since_tip, max_issued, eager, eager_skips, lazy_skips,
          cap_hit, skip_instants, initial_target>>

----------------------------------------------------------------------------
(* Bounds of the model *)

MaxHeight == 2
MaxClock == 6
MaxInitialTarget == 2
CatchUpHorizon == 22
MaxTipInstant == 0
MaxDelta == 9

----------------------------------------------------------------------------
(* Helpers of the standard library *)

Min(a, b) == IF a <= b THEN a ELSE b
Max(a, b) == IF a >= b THEN a ELSE b
\* a subtraction that does not saturate
plain_sub(a, b) == a - b

saturating_sub(a, b) == IF a >= b THEN a - b ELSE 0

\* u32::MAX, scaled to 3 bits.  Every configuration of the model reaches
\* max_delay below it or has delay_step 0, except DelayConfigs, which are
\* there to cross it.
U32_MAX == 7

\* a conversion that truncates: n as u32
u32_truncating(n) == n % (U32_MAX + 1)

\* u32::try_from(n).unwrap_or(u32::MAX)
u32_try_from_or_max(n) == IF n <= U32_MAX THEN n ELSE U32_MAX

----------------------------------------------------------------------------
(* chain-model: approvals *)

ApprovalInner_new(parent_hash, parent_height, target_height) ==
    IF target_height = parent_height + 1
    THEN <<"Endorsement", parent_hash>>
    ELSE <<"Skip", parent_height>>

Approval_new(parent_hash, parent_height, target_height) ==
    [inner |-> ApprovalInner_new(parent_hash, parent_height, target_height),
     target_height |-> target_height]

----------------------------------------------------------------------------
(* chain-core: DoomslugTimer and Doomslug *)

\* a loop bound that is off by one
MAX_TIMER_ITERS_off_by_one == 20 + 1

\* a loop bound that is one short
MAX_TIMER_ITERS_one_short == 20 - 1

MAX_TIMER_ITERS == 20

\* a delay without the cap of max_delay
get_delay_uncapped(timer, n) ==
    timer.min_delay + timer.delay_step * saturating_sub(u32_try_from_or_max(n), 2)

get_delay(timer, n) ==
    LET n32 == u32_try_from_or_max(n)
    IN Min(timer.max_delay,
           timer.min_delay + timer.delay_step * saturating_sub(n32, 2))

Doomslug_new(now, largest_target_height, endorsement_delay, min_delay, delay_step, max_delay) ==
    [largest_target_height |-> largest_target_height,
     largest_final_height |-> 0,
     tip |-> [block_hash |-> 0, height |-> 0],
     endorsement_pending |-> FALSE,
     timer |-> [started |-> now,
                last_endorsement_sent |-> now,
                height |-> 0,
                endorsement_delay |-> endorsement_delay,
                min_delay |-> min_delay,
                delay_step |-> delay_step,
                max_delay |-> max_delay]]

\* a tip update that also restarts the endorsement clock
set_tip_restarts_endorsement(d, now, block_hash, height, last_final_height) ==
    [d EXCEPT !.tip = [block_hash |-> block_hash, height |-> height],
              !.largest_final_height = last_final_height,
              !.timer.height = height + 1,
              !.timer.started = now,
              !.timer.last_endorsement_sent = now,
              !.endorsement_pending = TRUE]

set_tip(d, now, block_hash, height, last_final_height) ==
    [d EXCEPT !.tip = [block_hash |-> block_hash, height |-> height],
              !.largest_final_height = last_final_height,
              !.timer.height = height + 1,
              !.timer.started = now,
              !.endorsement_pending = TRUE]

create_approval(d, target_height) ==
    <<Approval_new(d.tip.block_hash, d.tip.height, target_height)>>

\* an endorsement step that does not wait for its deadline
endorsement_due_no_deadline(d, now) == d.endorsement_pending

\* an endorsement deadline of three delays
endorsement_due_late(d, now) ==
    /\ d.endorsement_pending
    /\ now >= d.timer.last_endorsement_sent + 3 * d.timer.endorsement_delay

\* the condition of the endorsement-deadline step
endorsement_due(d, now) ==
    /\ d.endorsement_pending
    /\ now >= d.timer.last_endorsement_sent + d.timer.endorsement_delay

\* an inner condition that lets a tip one below the approved height through
endorsement_allowed_off_by_one(d) ==
    d.tip.height + 1 >= d.largest_target_height

\* the inner condition: the tip is not below what was already approved
endorsement_allowed(d) == d.tip.height >= d.largest_target_height

\* an endorsement step that appends the approval and records nothing
service_endorsement_no_record(d, now) ==
    [ds |-> d, approvals |-> create_approval(d, d.tip.height + 1)]

\* an endorsement step that records the send only when it appends
service_endorsement_records_if_appended(d, now) ==
    IF endorsement_allowed(d)
    THEN [ds |-> [d EXCEPT !.largest_target_height = d.tip.height + 1,
                           !.timer.last_endorsement_sent = now,
                           !.endorsement_pending = FALSE],
          approvals |-> create_approval(d, d.tip.height + 1)]
    ELSE [ds |-> d, approvals |-> <<>>]

\* the body of the endorsement-deadline step: [ds, approvals]
service_endorsement(d, now) ==
    LET tip_height == d.tip.height
        allowed == endorsement_allowed(d)
        d1 == IF allowed
              THEN [d EXCEPT !.largest_target_height = tip_height + 1]
              ELSE d
    IN [ds |-> [d1 EXCEPT !.timer.last_endorsement_sent = now,
                          !.endorsement_pending = FALSE],
        approvals |-> IF allowed THEN create_approval(d, tip_height + 1)
                      ELSE <<>>]

\* a skip deadline that fires one clock unit late
skip_due_strict(d, now, skip_delay) == now > d.timer.started + skip_delay

\* the condition of the skip-deadline step
skip_due(d, now, skip_delay) == now >= d.timer.started + skip_delay

\* a restart that anchors the timer at the instant of the call
restart_timer_at_now(timer, now, skip_delay) ==
    [timer EXCEPT !.started = now, !.height = timer.height + 1]

\* "Restart the timer"
restart_timer(timer, now, skip_delay) ==
    [timer EXCEPT !.started = timer.started + skip_delay,
                  !.height = timer.height + 1]

\* a skip step that overwrites largest_target_height instead of raising it
fire_skip_overwrites_target(d, now, skip_delay) ==
    LET d1 == [d EXCEPT !.largest_target_height = d.timer.height + 1]
    IN [ds |-> [d1 EXCEPT !.timer = restart_timer(d.timer, now, skip_delay)],
        approvals |-> create_approval(d1, d.timer.height + 1)]

\* a skip step that leaves largest_target_height alone
fire_skip_keeps_target(d, now, skip_delay) ==
    [ds |-> [d EXCEPT !.timer = restart_timer(d.timer, now, skip_delay)],
     approvals |-> create_approval(d, d.timer.height + 1)]

\* the body of the skip-deadline step: [ds, approvals]
fire_skip(d, now, skip_delay) ==
    LET d1 == [d EXCEPT !.largest_target_height =
                            Max(d.timer.height + 1, d.largest_target_height)]
    IN [ds |-> [d1 EXCEPT !.timer = restart_timer(d.timer, now, skip_delay)],
        approvals |-> create_approval(d1, d.timer.height + 1)]

\* the skip delay an iteration computes
iter_skip_delay(d) ==
    get_delay(d.timer,
              saturating_sub(d.timer.height, d.largest_final_height))

\* a let binding: body(v) with v evaluated once
Let(v, body(_)) == CHOOSE out \in {body(x) : x \in {v}} : TRUE

\* one iteration of the loop: the state after it, what it appended, whether
\* the loop goes on, and a record of what it did
timer_iter(d, now) ==
    Let(iter_skip_delay(d), LAMBDA skip_delay :
    Let(endorsement_due(d, now), LAMBDA due :
    Let(IF due THEN service_endorsement(d, now)
        ELSE [ds |-> d, approvals |-> <<>>], LAMBDA e :
    Let(skip_due(e.ds, now, skip_delay), LAMBDA fired :
    Let(IF fired THEN fire_skip(e.ds, now, skip_delay)
        ELSE [ds |-> e.ds, approvals |-> <<>>], LAMBDA s :
       [ds |-> s.ds,
        approvals |-> e.approvals \o s.approvals,
        continue |-> fired,
        iter |-> [skip_delay |-> skip_delay,
                  started |-> d.timer.started,
                  height |-> d.timer.height,
                  started_after |-> s.ds.timer.started,
                  height_after |-> s.ds.timer.height,
                  serviced |-> due,
                  endorsement |-> e.approvals,
                  fired |-> fired,
                  skip |-> s.approvals,
                  delay_ok |-> skip_delay >= 2 * d.timer.endorsement_delay,
                  pending_ok |-> fired => ~e.ds.endorsement_pending]])))))

RECURSIVE timer_loop(_, _, _, _, _)
timer_loop(d, now, approvals, trace, left) ==
    IF left = 0
    THEN [ds |-> d, approvals |-> approvals, iters |-> trace]
    ELSE Let(timer_iter(d, now), LAMBDA r :
             IF r.continue
             THEN timer_loop(r.ds, now, approvals \o r.approvals,
                             Append(trace, r.iter), left - 1)
             ELSE [ds |-> r.ds, approvals |-> approvals \o r.approvals,
                   iters |-> Append(trace, r.iter)])

process_timer(d, now) == timer_loop(d, now, <<>>, <<>>, MAX_TIMER_ITERS)

----------------------------------------------------------------------------
(* What a call appended, by step *)

RECURSIVE Flatten(_)
Flatten(seqs) ==
    IF seqs = <<>> THEN <<>> ELSE Head(seqs) \o Flatten(Tail(seqs))

SkipsOf(trace) == Flatten([i \in 1..Len(trace) |-> trace[i].skip])
EndorsementsOf(trace) ==
    Flatten([i \in 1..Len(trace) |-> trace[i].endorsement])

\* timer.started as each skip of the trace left it
StartedOf(trace) ==
    Flatten([i \in 1..Len(trace) |->
                IF trace[i].fired THEN <<trace[i].started_after>> ELSE <<>>])

RECURSIVE MaxTarget(_, _)
MaxTarget(approvals, floor) ==
    IF approvals = <<>> THEN floor
    ELSE MaxTarget(Tail(approvals), Max(floor, Head(approvals).target_height))

----------------------------------------------------------------------------
(* Inputs *)

Hashes == {1, 2}
Heights == 0..MaxHeight
FinalHeights == {0, MaxHeight}
InitialTargets == {0, MaxInitialTarget}

Config(e, m, s, x) ==
    [endorsement_delay |-> e, min_delay |-> m, delay_step |-> s,
     max_delay |-> x]

\* the delays of test_endorsements_and_skips_basic
TestConfig == Config(400, 1000, 100, 3000)

\* growing; flat; min_delay < 2 * endorsement_delay; max_delay < min_delay
Configs == {Config(1, 2, 1, 4), Config(1, 3, 0, 3), Config(2, 1, 1, 3),
            Config(1, 3, 1, 2)}

\* a skip delay of one clock step; a growing one
CatchUpConfigs == {Config(0, 1, 0, 1), Config(1, 2, 1, 3)}

\* a growing skip delay; a flat one
StallConfigs == {Config(1, 2, 1, 3), Config(1, 3, 0, 3)}

\* delays that still grow where the height delta passes U32_MAX, and one
\* whose max_delay is below 2 * endorsement_delay <= min_delay
DelayConfigs == {Config(1, 2, 1, 100), Config(1, 2, 3, 40), Config(2, 4, 1, 3)}
DelayHeights == 0..MaxDelta
DelayFinalHeights == {0, MaxDelta}

Durations == {1, 2}

\* the steps and the instants of test_endorsements_and_skips_basic up to its
\* first skip, and those of the scenario of the specification
ScenarioDurations == {1, 399, 599, 999}
ScenarioInstants == {0, 399, 400, 999, 1000, 1399, 1400}
ScenarioHeights == {1, 2}
ScenarioFinalHeights == {0, 1}

CatchUpHeights == {0, 1}

----------------------------------------------------------------------------
(* The state machine *)

InitWith(configs, targets) ==
    /\ clock = 0
    /\ \E c \in configs, t \in targets :
          ds = Doomslug_new(0, t, c.endorsement_delay, c.min_delay,
                            c.delay_step, c.max_delay)
    /\ call = <<"new">>
    /\ returned = <<>>
    /\ iters = <<>>
    /\ tip_set_at = 0
    /\ endorsements_since_tip = 0
    /\ max_issued = 0
    /\ eager = ds
    /\ eager_skips = <<>>
    /\ lazy_skips = <<>>
    /\ cap_hit = FALSE
    /\ skip_instants = <<ds.timer.started>>
    /\ initial_target = ds.largest_target_height

Init == InitWith(Configs, InitialTargets)

InitScenario == InitWith({TestConfig}, {0})

\* Clock::advance(duration); the twin calls process_timer at every clock step
Advance(d) ==
    /\ clock' = clock + d
    /\ call' = <<"advance">>
    /\ returned' = <<>>
    /\ iters' = <<>>
    /\ \E r \in {process_timer(eager, clock + d)} :
          /\ eager' = r.ds
          /\ eager_skips' = eager_skips \o SkipsOf(r.iters)
    /\ UNCHANGED <<ds, tip_set_at, endorsements_since_tip, max_issued,
                   lazy_skips, cap_hit, skip_instants, initial_target>>

\* Doomslug::set_tip(block_hash, height, last_final_height)
SetTip(block_hash, height, last_final_height) ==
    /\ ds' = set_tip(ds, clock, block_hash, height, last_final_height)
    /\ call' = <<"set_tip", block_hash, height, last_final_height>>
    /\ tip_set_at' = clock
    /\ endorsements_since_tip' = 0
    /\ returned' = <<>>
    /\ iters' = <<>>
    /\ eager' = ds'
    /\ eager_skips' = <<>>
    /\ lazy_skips' = <<>>
    /\ cap_hit' = FALSE
    /\ skip_instants' = <<ds'.timer.started>>
    /\ UNCHANGED <<clock, max_issued, initial_target>>

\* Doomslug::process_timer()
ProcessTimer ==
    \E r \in {process_timer(ds, clock)} :
       /\ ds' = r.ds
       /\ returned' = r.approvals
       /\ iters' = r.iters
       /\ call' = <<"process_timer">>
       /\ endorsements_since_tip' =
              endorsements_since_tip + Len(EndorsementsOf(r.iters))
       /\ max_issued' = MaxTarget(r.approvals, max_issued)
       /\ lazy_skips' = lazy_skips \o SkipsOf(r.iters)
       /\ cap_hit' = (cap_hit \/ (Len(r.iters) = MAX_TIMER_ITERS
                                  /\ r.iters[Len(r.iters)].fired))
       /\ skip_instants' = skip_instants \o StartedOf(r.iters)
       /\ UNCHANGED <<clock, tip_set_at, eager, eager_skips, initial_target>>

InitCatchUp == InitWith(CatchUpConfigs, {0})

InitStall == InitWith(StallConfigs, {0})

InitDelay == InitWith(DelayConfigs, {0})

Next ==
    \/ \E d \in Durations : clock + d <= MaxClock /\ Advance(d)
    \/ \E b \in Hashes, h \in Heights, f \in FinalHeights : SetTip(b, h, f)
    \/ ProcessTimer

NextScenario ==
    \/ \E d \in ScenarioDurations :
          clock + d \in ScenarioInstants /\ Advance(d)
    \/ \E b \in Hashes, h \in ScenarioHeights, f \in ScenarioFinalHeights :
          SetTip(b, h, f)
    \/ ProcessTimer

\* the clock moves one step at a time
NextCatchUp ==
    \/ clock < CatchUpHorizon /\ Advance(1)
    \/ \E h \in CatchUpHeights, f \in CatchUpHeights :
          clock <= MaxTipInstant /\ SetTip(1, h, f)
    \/ ProcessTimer

\* height deltas from 0 to beyond U32_MAX
NextDelay ==
    \/ clock < MaxClock /\ Advance(1)
    \/ \E h \in DelayHeights, f \in DelayFinalHeights : SetTip(1, h, f)
    \/ ProcessTimer

Spec == Init /\ [][Next]_vars

SpecDelay == InitDelay /\ [][NextDelay]_vars

SpecCatchUp == InitCatchUp /\ [][NextCatchUp]_vars

SpecScenario == InitScenario /\ [][NextScenario]_vars

\* a stall: the clock keeps advancing up to the horizon and process_timer
\* keeps being called for as long as a call changes something
SpecStall ==
    /\ InitStall
    /\ [][NextCatchUp]_vars
    /\ WF_vars(clock < CatchUpHorizon /\ Advance(1))
    /\ WF_vars(ProcessTimer)

----------------------------------------------------------------------------
(* Properties *)

Ticked == call = <<"process_timer">>
Endorsement(hash, target) ==
    [inner |-> <<"Endorsement", hash>>, target_height |-> target]
Skip(parent_height, target) ==
    [inner |-> <<"Skip", parent_height>>, target_height |-> target]

\* C1: the endorsement-deadline step of process_timer appends an endorsement
\* only when tip.height >= largest_target_height held at the call; the
\* endorsement is then the first approval returned, has target_height =
\* tip.height + 1, carries tip.block_hash, and its target_height is above
\* that of every approval returned earlier.  A call made while tip.height <
\* largest_target_height appends no endorsement.
C1_EndorsementAboveAllEarlier ==
    [][call' = <<"process_timer">> =>
          /\ EndorsementsOf(iters') # <<>> =>
                /\ ds.tip.height >= ds.largest_target_height
                /\ EndorsementsOf(iters') =
                       <<Endorsement(ds.tip.block_hash, ds.tip.height + 1)>>
                /\ returned'[1] =
                       Endorsement(ds.tip.block_hash, ds.tip.height + 1)
                /\ ds.tip.height + 1 > max_issued
          /\ ds.tip.height < ds.largest_target_height =>
                EndorsementsOf(iters') = <<>>]_vars

\* an endorsement for a tip at height 2 carrying the second hash, returned
\* for a tip that was set after the clock had moved
C1_Witness ==
    /\ Ticked
    /\ returned # <<>>
    /\ returned[1] = Endorsement(2, 3)
    /\ ds.tip = [block_hash |-> 2, height |-> 2]
    /\ lazy_skips = <<>>
    /\ tip_set_at > 0

\* C2: between two consecutive set_tip calls (or after the last one) all
\* process_timer calls together return at most one approval from the
\* endorsement-deadline step.
C2_AtMostOneEndorsementPerTip == endorsements_since_tip <= 1

\* a later call at a later instant, after the endorsement, that appended none
C2_Witness ==
    /\ Ticked
    /\ endorsements_since_tip = 1
    /\ EndorsementsOf(iters) = <<>>
    /\ clock > ds.timer.last_endorsement_sent + ds.timer.endorsement_delay

\* C3 as stated: a process_timer call that returns the endorsement is made
\* no earlier than endorsement_delay after the set_tip call.
C3_Original ==
    (Ticked /\ EndorsementsOf(iters) # <<>>) =>
        clock >= tip_set_at + ds.timer.endorsement_delay

\* C3 as amended: a process_timer call that returns the endorsement is made
\* no earlier than endorsement_delay after last_endorsement_sent, the instant
\* the endorsement deadline was serviced last (the construction before any).
C3_NotBeforeLastEndorsementPlusDelay ==
    [][(call' = <<"process_timer">> /\ EndorsementsOf(iters') # <<>>) =>
          clock >= ds.timer.last_endorsement_sent
                       + ds.timer.endorsement_delay]_vars

\* an endorsement returned less than endorsement_delay after the tip update
C3_Witness ==
    /\ Ticked
    /\ EndorsementsOf(iters) # <<>>
    /\ clock < tip_set_at + ds.timer.endorsement_delay

\* C4: a single process_timer call never returns more than 20 skip approvals
\* and never raises timer.height by more than 20.
C4_AtMostTwentySkips ==
    Ticked =>
        /\ Len(SkipsOf(iters)) <= 20
        /\ Len(returned) <= 20 + 1
        /\ ds.timer.height - iters[1].height <= 20

\* a call that returned 20 skips and left a skip overdue
C4_Witness ==
    /\ Ticked
    /\ Len(SkipsOf(iters)) = 20
    /\ ds.timer.height = iters[1].height + 20
    /\ skip_due(ds, clock, iter_skip_delay(ds))

\* C5: largest_target_height never decreases, whatever set_tip is given.
C5_LargestTargetHeightMonotone ==
    [][ds'.largest_target_height >= ds.largest_target_height]_vars

\* a skip fired for a tip that regressed below largest_target_height
C5_Witness ==
    /\ Ticked
    /\ SkipsOf(iters) # <<>>
    /\ ds.timer.height < ds.largest_target_height
    /\ ds.largest_target_height > MaxInitialTarget

\* C6: set_tip(block_hash, height, last_final_height), in any prior state,
\* ends with tip = (block_hash, height), largest_final_height =
\* last_final_height, timer.height = height + 1, timer.started = now and
\* endorsement_pending = TRUE, and leaves largest_target_height,
\* timer.last_endorsement_sent and the four delays unchanged.
C6_SetTipEffectAndFrame ==
    [][call'[1] = "set_tip" =>
          /\ ds'.tip = [block_hash |-> call'[2], height |-> call'[3]]
          /\ ds'.largest_final_height = call'[4]
          /\ ds'.timer.height = call'[3] + 1
          /\ ds'.timer.started = clock
          /\ ds'.endorsement_pending = TRUE
          /\ ds'.largest_target_height = ds.largest_target_height
          /\ ds'.timer.last_endorsement_sent = ds.timer.last_endorsement_sent
          /\ ds'.timer.endorsement_delay = ds.timer.endorsement_delay
          /\ ds'.timer.min_delay = ds.timer.min_delay
          /\ ds'.timer.delay_step = ds.timer.delay_step
          /\ ds'.timer.max_delay = ds.timer.max_delay]_vars

\* a set_tip, later than the last endorsement, whose height is below what
\* was approved and whose last_final_height is above its height
C6_Witness ==
    /\ call[1] = "set_tip"
    /\ call[4] > call[3]
    /\ call[3] + 1 < ds.largest_target_height
    /\ clock > ds.timer.last_endorsement_sent
    /\ ds.largest_target_height > MaxInitialTarget

\* C7 as stated: no instance with min_delay < 2 * endorsement_delay exists,
\* so set_tip and process_timer never run on one.
C7_Original ==
    call[1] \in {"set_tip", "process_timer"} =>
        ds.timer.min_delay >= 2 * ds.timer.endorsement_delay

Fresh(instant) ==
    /\ clock = instant
    /\ tip_set_at = 0
    /\ ds.tip.height = 1
    /\ ds.largest_final_height = 1
    /\ lazy_skips = <<>>

\* C8 as stated (delays 400, 1000, 100, 3000; set_tip(height 1, last-final
\* 1) on a fresh orchestrator): a tick after 399 ms returns nothing, a tick
\* 1 ms later returns one Endorsement with target_height 2; a tick after a
\* further 999 ms returns nothing and a tick after the next 1 ms returns one
\* Skip with target_height 3.
C8_Original ==
    [][call' = <<"process_timer">> =>
          /\ Fresh(399) => returned' = <<>>
          /\ (Fresh(400) /\ ds.endorsement_pending) =>
                returned' = <<Endorsement(ds.tip.block_hash, 2)>>
          /\ (Fresh(1399) /\ ds.timer.last_endorsement_sent = 400) =>
                returned' = <<>>
          /\ (Fresh(1400) /\ ds.timer.last_endorsement_sent = 400) =>
                returned' = <<Skip(1, 3)>>]_vars

\* C8 as amended: the same, the last two ticks being after a further 599 ms
\* (999 ms after the tip update), which returns nothing, and after the next
\* 1 ms (1000 ms after the tip update), which returns one Skip(1) with
\* target_height 3.
C8_ScenarioOfTheTest ==
    [][call' = <<"process_timer">> =>
          /\ Fresh(399) => returned' = <<>>
          /\ (Fresh(400) /\ ds.endorsement_pending) =>
                returned' = <<Endorsement(ds.tip.block_hash, 2)>>
          /\ (Fresh(999) /\ ds.timer.last_endorsement_sent = 400) =>
                returned' = <<>>
          /\ (Fresh(1000) /\ ds.timer.last_endorsement_sent = 400) =>
                returned' = <<Skip(1, 3)>>]_vars

\* the skip of the scenario, returned at 1000 ms after the endorsement at 400
C8_Witness ==
    /\ Ticked
    /\ clock = 1000
    /\ tip_set_at = 0
    /\ ds.tip.height = 1
    /\ ds.largest_final_height = 1
    /\ ds.timer.last_endorsement_sent = 400
    /\ endorsements_since_tip = 1
    /\ returned = <<Skip(1, 3)>>

\* C9: in each iteration of process_timer a skip fires if and only if now >=
\* timer.started + skip_delay, with skip_delay = get_delay(timer.height -
\* largest_final_height, saturating at 0); a fired skip appends one approval
\* with target_height = timer.height + 1, raises timer.height by exactly 1
\* and timer.started by exactly skip_delay; an iteration without a skip
\* changes neither and ends the call.
C9_SkipSchedule ==
    Ticked =>
        /\ returned = EndorsementsOf(iters) \o SkipsOf(iters)
        /\ \A i \in 1..Len(iters) :
              LET it == iters[i]
              IN /\ it.skip_delay =
                        get_delay(ds.timer,
                                  saturating_sub(it.height,
                                                 ds.largest_final_height))
                 /\ it.fired <=> clock >= it.started + it.skip_delay
                 /\ it.fired =>
                        /\ it.skip = <<Approval_new(ds.tip.block_hash,
                                                    ds.tip.height,
                                                    it.height + 1)>>
                        /\ it.height_after = it.height + 1
                        /\ it.started_after = it.started + it.skip_delay
                 /\ ~it.fired =>
                        /\ it.skip = <<>>
                        /\ it.height_after = it.height
                        /\ it.started_after = it.started
                        /\ i = Len(iters)
                 /\ i < Len(iters) =>
                        /\ iters[i + 1].started = it.started_after
                        /\ iters[i + 1].height = it.height_after
                 /\ i = Len(iters) =>
                        /\ ds.timer.started = it.started_after
                        /\ ds.timer.height = it.height_after

\* a call made later than the skip's instant, with largest_final_height
\* above timer.height, that fired two skips
C9_Witness ==
    /\ Ticked
    /\ Len(SkipsOf(iters)) >= 2
    /\ clock > iters[1].started + iters[1].skip_delay
    /\ iters[1].height < ds.largest_final_height

\* the last call returned nothing: ds has caught up with the clock
CaughtUp == Ticked /\ returned = <<>>

\* C10: with no set_tip in between, an instance ticked at every clock step
\* and one ticked at any later instants and then until a tick returns
\* nothing have returned the same sequence of skip approvals and have the
\* same timer.height and timer.started, also when a tick ran into the
\* iteration cap.
C10_CatchUpIndependentOfCallTiming ==
    CaughtUp =>
        /\ lazy_skips = eager_skips
        /\ ds.timer.height = eager.timer.height
        /\ ds.timer.started = eager.timer.started

\* caught up after a tick that used all 20 iterations
C10_Witness ==
    /\ CaughtUp
    /\ cap_hit
    /\ Len(lazy_skips) > 20
    /\ Len(eager_skips) > 20

\* the stall has begun: no set_tip can follow
Stalled == clock > MaxTipInstant

\* C11: once no set_tip follows, with the clock advancing and process_timer
\* being called, timer.height keeps growing: by the horizon every skip
\* scheduled up to it has been returned, one for each height from the first
\* to timer.height, and they are at least as many as the stall is long in
\* units of max_delay.
C11_StallProgress ==
    <>[](/\ Stalled
         /\ clock = CatchUpHorizon
         /\ clock < ds.timer.started + iter_skip_delay(ds)
         /\ Len(lazy_skips) >=
                (CatchUpHorizon - tip_set_at) \div ds.timer.max_delay
         /\ \A i \in 1..Len(lazy_skips) :
                lazy_skips[i].target_height =
                    ds.timer.height - Len(lazy_skips) + i)

\* a stall that has returned at least eight skips by the horizon
C11_Witness ==
    /\ Stalled
    /\ clock = CatchUpHorizon
    /\ Len(lazy_skips) >= 8

\* the delay of the specification for height delta n
ExpectedDelay(timer, n) ==
    LET clamped == IF n > U32_MAX THEN U32_MAX ELSE n
        steps == IF clamped - 2 > 0 THEN clamped - 2 ELSE 0
        grown == timer.min_delay + timer.delay_step * steps
    IN IF grown < timer.max_delay THEN grown ELSE timer.max_delay

\* C12: get_delay(n) = min(max_delay, min_delay + delay_step * max(n' - 2,
\* 0)), n' being n clamped to the largest 32-bit count, for every n; and
\* each iteration of process_timer computes the delay of n = timer.height -
\* largest_final_height, of n = 0 when largest_final_height is the larger.
C12_DelayFormula ==
    /\ \A n \in 0..(MaxDelta + 2) :
           get_delay(ds.timer, n) = ExpectedDelay(ds.timer, n)
    /\ Ticked =>
           \A i \in 1..Len(iters) :
               iters[i].skip_delay =
                   IF iters[i].height > ds.largest_final_height
                   THEN ExpectedDelay(ds.timer,
                            iters[i].height - ds.largest_final_height)
                   ELSE ExpectedDelay(ds.timer, 0)

\* an iteration whose height delta is above U32_MAX and whose delay is
\* still below max_delay, after one with largest_final_height above
\* timer.height is possible in the same configuration
C12_Witness ==
    /\ Ticked
    /\ iters[1].height - ds.largest_final_height > U32_MAX
    /\ iters[1].skip_delay < ds.timer.max_delay
    /\ iters[1].skip_delay =
           ds.timer.min_delay + ds.timer.delay_step * (U32_MAX - 2)

\* C13 as stated: for every configuration the constructor accepts and every
\* n <= 2, get_delay(n) = min_delay.
C13_Original ==
    Ticked =>
        \A i \in 1..Len(iters) :
            iters[i].height <= ds.largest_final_height + 2 =>
                /\ iters[i].skip_delay = ds.timer.min_delay
                /\ \A n \in 0..2 : get_delay(ds.timer, n) = ds.timer.min_delay

Gap(i) == skip_instants[i + 1] - skip_instants[i]

\* C14: with no set_tip in between, successive skip approvals have
\* target_height one above the other, and the gaps between the successive
\* values of timer.started never decrease and never exceed max_delay.
C14_StallSchedule ==
    /\ Len(skip_instants) = Len(lazy_skips) + 1
    /\ skip_instants[Len(skip_instants)] = ds.timer.started
    /\ \A i \in 1..(Len(lazy_skips) - 1) :
           lazy_skips[i + 1].target_height = lazy_skips[i].target_height + 1
    /\ \A i \in 1..(Len(skip_instants) - 1) : Gap(i) <= ds.timer.max_delay
    /\ \A i \in 1..(Len(skip_instants) - 2) : Gap(i) <= Gap(i + 1)

\* a stall of five skips whose gaps grew from min_delay to max_delay
C14_Witness ==
    /\ Len(lazy_skips) >= 5
    /\ Gap(1) = ds.timer.min_delay
    /\ Gap(1) < Gap(Len(lazy_skips))
    /\ Gap(Len(lazy_skips)) = ds.timer.max_delay
    /\ lazy_skips[5].target_height = lazy_skips[1].target_height + 4

\* the endorsement deadline of d has been reached at instant now
DeadlineReached(d, now) ==
    now >= d.timer.last_endorsement_sent + d.timer.endorsement_delay

\* C15: process_timer never turns endorsement_pending from false to true; a
\* call made while endorsement_pending is true and now >=
\* last_endorsement_sent + endorsement_delay ends with endorsement_pending
\* false and last_endorsement_sent = now, whether or not it appended an
\* endorsement; a call made before that deadline leaves both unchanged.
C15_EndorsementBookkeeping ==
    [][call' = <<"process_timer">> =>
          /\ ~ds.endorsement_pending => ~ds'.endorsement_pending
          /\ (ds.endorsement_pending /\ DeadlineReached(ds, clock)) =>
                 /\ ~ds'.endorsement_pending
                 /\ ds'.timer.last_endorsement_sent = clock
          /\ ~DeadlineReached(ds, clock) =>
                 /\ ds'.endorsement_pending = ds.endorsement_pending
                 /\ ds'.timer.last_endorsement_sent =
                        ds.timer.last_endorsement_sent]_vars

\* a call that serviced the deadline of a tip below largest_target_height:
\* nothing appended, the send recorded at the instant of the call
C15_Witness ==
    /\ Ticked
    /\ iters[1].serviced
    /\ iters[1].endorsement = <<>>
    /\ ~ds.endorsement_pending
    /\ ds.timer.last_endorsement_sent = clock
    /\ clock > tip_set_at

\* C16: when a process_timer call returned fewer than 20 skips, a second
\* call at the same instant, with no set_tip in between, returns no
\* approvals and changes no state.
C16_SecondTickIsNoOp ==
    [][(/\ call = <<"process_timer">>
        /\ Len(SkipsOf(iters)) < 20
        /\ call' = <<"process_timer">>) =>
          /\ returned' = <<>>
          /\ ds' = ds]_vars

\* a call that returned nothing at the very instant at which an earlier
\* call fired the last skip
C16_Witness ==
    /\ Ticked
    /\ returned = <<>>
    /\ Len(skip_instants) >= 2
    /\ skip_instants[Len(skip_instants)] = clock
    /\ ~cap_hit

\* C17 as stated: in every reachable state, before the first set_tip
\* included, the approval of the skip step is Skip(tip.height) with
\* target_height = timer.height + 1 >= tip.height + 2.
C17_Original ==
    Ticked =>
        \A i \in 1..Len(iters) :
            iters[i].fired =>
                /\ iters[i].skip =
                       <<Skip(ds.tip.height, iters[i].height + 1)>>
                /\ iters[i].height + 1 >= ds.tip.height + 2

\* the assertion at the top of the loop held in every iteration of the call
DelayAssertionHeld == \A i \in 1..Len(iters) : iters[i].delay_ok

C19_SchedulesNeverCollide ==
    (/\ Ticked
     /\ ds.timer.min_delay >= 2 * ds.timer.endorsement_delay
     /\ ds.timer.max_delay >= 2 * ds.timer.endorsement_delay) =>
        /\ \A i \in 1..Len(iters) : iters[i].pending_ok
        /\ lazy_skips # <<>> => ~ds.endorsement_pending

\* a call whose first iteration serviced the endorsement deadline and then
\* fired the skip deadline
C19_Witness ==
    /\ Ticked
    /\ ds.timer.min_delay >= 2 * ds.timer.endorsement_delay
    /\ ds.timer.max_delay >= 2 * ds.timer.endorsement_delay
    /\ iters[1].serviced
    /\ iters[1].fired
    /\ iters[1].pending_ok

\* C20: largest_target_height is the maximum of the value given to new and
\* the target_height of every approval process_timer has returned.
C20_LargestTargetIsMaxIssued ==
    ds.largest_target_height = Max(initial_target, max_issued)

\* a skip returned for a target_height below largest_target_height
C20_Witness ==
    /\ Ticked
    /\ \E i \in 1..Len(returned) :
           /\ returned[i].inner[1] = "Skip"
           /\ returned[i].target_height < ds.largest_target_height
    /\ max_issued > initial_target

====
